---- MODULE Spec2Model ----
(***************************************************************************)
(* Oat shared-memory Node protocol: one Sink (producer) and several        *)
(* Sources (consumers) on one address.                                     *)
(*                                                                         *)
(* The Source side is SourceBase<T> of experiments/src/Source.h, driven    *)
(* the way Recorder.cpp drives a source (connectToNodes, writeStreams).    *)
(* Node.h and Sink.h are not part of the source tree at hand: the Node's   *)
(* counters and barriers and the Sink's bind/wait/post/destruction are     *)
(* taken from sections 3 and 4.2-4.4 of the specification.                 *)
(*                                                                         *)
(* Every access to the shared segment is one step, so that the steps of    *)
(* different processes interleave as they do on the host.  A timed wait    *)
(* that times out and retries changes nothing and is a stuttering step.    *)
(***************************************************************************)
EXTENDS Integers, Naturals, Sequences, FiniteSets, TLC

\* ------------------------------------------------------------------ bounds
\* consumer processes, each constructing one Source
NumConsumers == 2
\* publications the sink performs before it stops starting new cycles
MaxWrite == 2
\* consumer processes taking part while two sinks compete for the address
NumSinkConsumers == 1

\* --------------------------------------------------------------- constants
\* size of the Node's read_barriers array (specification 3, 4.3)
MAX_CONSUMERS == 2

Consumers == 1..NumConsumers
Slots == 0..(MAX_CONSUMERS - 1)
\* every participant (the consumers and two sinks) binds once, so at most this
\* many segments ever exist
MaxSegs == NumConsumers + 2
Segs == 1..MaxSegs
\* node_ of an object that has not mapped a segment
NoSeg == 0

VARIABLES
    linked,             \* segment the address names on the host, NoSeg if none
    nsegs,              \* segments created so far (the newest has this id)
    sink_state,         \* Node::sink_state, per segment
    source_ref_count,   \* Node::source_ref_count, per segment
    source_read_count,  \* Node::source_read_count, per segment
    write_number,       \* Node::write_number, per segment
    write_barrier,      \* Node::write_barrier (semaphore count), per segment
    read_barrier,       \* Node::read_barriers[slot] (semaphore counts), per segment
    slots,              \* slot indices handed out and not released, per segment
    pc,                 \* position of each consumer process
    node_,              \* SourceBase::node_ (the segment it points into)
    this_index_,        \* SourceBase::this_index_
    shmem_bound_,       \* SourceBase::shmem_bound_
    tmp,                \* value of the first operand evaluated in post()
    observed,           \* write numbers each consumer read inside wait..post
    joined,             \* publications completed on its segment when it attached
    blockedAtEnd,       \* consumers blocked since before the sink's destruction began
    spc,                \* position of the sink process
    snode,              \* segment the sink is bound to
    si,                 \* loop index of the sink's post()
    quit,               \* the quit flag of each consumer process (set by SIGINT)
    rpc,                \* position of a second sink process on the same address
    rnode,              \* segment the second sink mapped
    component,          \* the component whose main() runs: posifilt or frameserve
    args,               \* what its command line holds
    mpc,                \* position inside main()
    ret,                \* the value main() returned
    mexit,              \* how main() ended: returned, or std::terminate
    cause,              \* why main() ended
    filter,             \* the filter / camera pointer has been assigned
    main_quit,          \* main.cpp's quit flag
    source_eof,         \* main.cpp's source_eof / server_eof flag
    process_calls,      \* calls of process() / serveMat() made by run()
    recpc,              \* position of the thread that owns the Recorder
    rec_i,              \* loop index i of writeStreams
    record_on_,         \* Recorder::record_on_
    source_eof_,        \* Recorder::source_eof_
    running_,           \* Recorder::running_
    frame_write_buffers_, \* Recorder::frame_write_buffers_, one queue per writer
    wpc,                \* position of each frame writer thread
    written,            \* frames each writer thread handed to its video writer
    pushed,             \* frames writeStreams pushed into each queue
    in_section,         \* sources whose wait() returned and post() was not called
    ended,              \* sources whose wait() has returned END
    rec_ret,            \* what the calls of writeStreams returned, in order
    stream_calls,       \* calls of writeStreams made
    touched,            \* sources connectToNodes has called touch() on
    connected,          \* sources connectToNodes has called connect() on, in order
    ex_code,            \* error code of the interprocess_exception run() caught, 0 if none
    dpc,                \* position of the HSVDetector: before or after siftBlobs
    contours,           \* what findContours returned: area and nesting of each contour
    min_object_area,    \* HSVDetector::min_object_area
    max_object_area,    \* HSVDetector::max_object_area
    object_area,        \* HSVDetector::object_area
    position_valid,     \* HSVDetector::object_position.position_valid
    object_position     \* the contour whose centroid object_position.position holds

nodeVars == <<sink_state, source_ref_count, source_read_count, write_number,
              write_barrier, read_barrier, slots>>
srcVars == <<pc, node_, this_index_, shmem_bound_, tmp, observed, joined>>
sinkVars == <<spc, snode, si>>
mainVars == <<component, args, mpc, ret, mexit, cause, filter, main_quit, source_eof,
              process_calls, ex_code>>
recVars == <<recpc, rec_i, record_on_, source_eof_, running_, frame_write_buffers_,
             wpc, written, pushed, in_section, ended, rec_ret, stream_calls,
             touched, connected>>
detVars == <<dpc, contours, min_object_area, max_object_area, object_area,
             position_valid, object_position>>
envVars == <<quit, rpc, rnode, mainVars, recVars, detVars>>
vars == <<linked, nsegs, nodeVars, srcVars, sinkVars, blockedAtEnd, envVars>>
\* everything the shared-memory participants own
nodeSideVars == <<linked, nsegs, nodeVars, srcVars, sinkVars, blockedAtEnd, quit, rpc,
                  rnode>>

\* ------------------------------------------------------------- Components
\* the command lines main() is run on: which options are given, what TYPE is,
\* and whether the parser throws (a po::error, or something that is not a
\* std::exception)
Types == {"none", "bad", "ok", "file"}

ParseOutcomes == {"ok", "po_error", "other"}

ArgSets ==
    [help : BOOLEAN, version : BOOLEAN, type : Types, source : BOOLEAN,
     sink : BOOLEAN, config_file : BOOLEAN, config_key : BOOLEAN,
     video_file : BOOLEAN, parse : ParseOutcomes]

NoArgs ==
    [help |-> FALSE, version |-> FALSE, type |-> "none", source |-> FALSE,
     sink |-> FALSE, config_file |-> FALSE, config_key |-> FALSE,
     video_file |-> FALSE, parse |-> "ok"]

\* value of source_read_count from which no unmatched post() is made
MaxReadCount == 1

\* calls of process() / serveMat() after which the stream ends or fails
MaxProcess == 2

\* -------------------------------------------------------- Recorder bounds
NumWriters == 1

NumPositionSources == 1

\* frame sources, each with its queue and its writer thread
Writers == 1..NumWriters

PositionSources == 1..NumPositionSources

\* capacity of a frame queue
QueueCapacity == 1

\* calls of writeStreams made before the Recorder is destroyed
MaxStreamCalls == 3

\* ------------------------------------------------------------------- Init
Init ==
    /\ linked = NoSeg
    /\ nsegs = 0
    /\ sink_state = [s \in Segs |-> "UNDEFINED"]
    /\ source_ref_count = [s \in Segs |-> 0]
    /\ source_read_count = [s \in Segs |-> 0]
    /\ write_number = [s \in Segs |-> 0]
    /\ write_barrier = [s \in Segs |-> 1]
    /\ read_barrier = [s \in Segs |-> [i \in Slots |-> 0]]
    /\ slots = [s \in Segs |-> {}]
    /\ pc = [c \in Consumers |-> "new"]
    /\ node_ = [c \in Consumers |-> NoSeg]
    /\ this_index_ = [c \in Consumers |-> 0]
    /\ shmem_bound_ = [c \in Consumers |-> FALSE]
    /\ tmp = [c \in Consumers |-> 0]
    /\ observed = [c \in Consumers |-> <<>>]
    /\ joined = [c \in Consumers |-> 0]
    /\ blockedAtEnd = {}
    /\ spc = "new"
    /\ snode = NoSeg
    /\ si = 0
    /\ quit = [c \in Consumers |-> FALSE]
    /\ rpc = "new"
    /\ rnode = NoSeg
    /\ component = "none"
    /\ args = NoArgs
    /\ mpc = "none"
    /\ ret = 0
    /\ mexit = "running"
    /\ cause = "none"
    /\ filter = FALSE
    /\ main_quit = FALSE
    /\ source_eof = FALSE
    /\ process_calls = 0
    /\ recpc = "none"
    /\ rec_i = 0
    /\ record_on_ = FALSE
    /\ source_eof_ = FALSE
    /\ running_ = TRUE
    /\ frame_write_buffers_ = [w \in Writers |-> <<>>]
    /\ wpc = [w \in Writers |-> "none"]
    /\ written = [w \in Writers |-> <<>>]
    /\ pushed = [w \in Writers |-> <<>>]
    /\ in_section = {}
    /\ ended = {}
    /\ rec_ret = <<>>
    /\ stream_calls = 0
    /\ touched = {}
    /\ connected = <<>>
    /\ ex_code = 0
    /\ dpc = "none"
    /\ contours = <<>>
    /\ min_object_area = 0
    /\ max_object_area = 0
    /\ object_area = 0
    /\ position_valid = FALSE
    /\ object_position = 0

\* ------------------------------------------------------- Segment manager
\* open_or_create(name): the segment the name refers to, created if absent
Mapped == IF linked # NoSeg THEN linked ELSE nsegs + 1

\* effect of open_or_create on the host's name table
OpenOrCreate ==
    IF linked # NoSeg
    THEN UNCHANGED <<linked, nsegs>>
    ELSE /\ nsegs < MaxSegs
         /\ nsegs' = nsegs + 1
         /\ linked' = nsegs + 1

\* shared_memory_object::remove(name): the name no longer refers to a segment
\* (processes that mapped the segment keep their mapping)
Remove == linked' = NoSeg

\* ------------------------------------------------------------------- Node
\* the lowest slot index not handed out
LowestFree(s) == CHOOSE i \in Slots \ slots[s] : \A j \in Slots \ slots[s] : i <= j

\* increment_source_ref_count() fails with too-many-consumers
TooManyConsumers(s) == source_ref_count[s] >= MAX_CONSUMERS

\* mutant of incrementSourceRefCount: the highest free slot is handed out
HighestFree(s) == CHOOSE i \in Slots \ slots[s] : \A j \in Slots \ slots[s] : i >= j

\* increment_source_ref_count(): the slot index it returns
incrementSourceRefCount(s) == LowestFree(s)

\* decrement_source_ref_count(): the post-decrement value it returns
decrementSourceRefCount(s) == source_ref_count[s] - 1

\* increment_source_read_count(): the new count it returns
incrementSourceReadCount(s) == source_read_count[s] + 1

\* mutant of SetSinkState: the state is overwritten whatever it was
SetSinkStateUnlatched(s, v) == v

\* set_sink_state(v): END is latched
SetSinkState(s, v) == IF sink_state[s] = "END" THEN "END" ELSE v

\* publications the sink has completed on segment s: write_number counts a
\* sample from the moment it is written, its post() completes it
Published(s) ==
    IF snode = s /\ spc \in {"s_post", "s_postloop"}
    THEN write_number[s] - 1
    ELSE write_number[s]

\* ----------------------------------------------------------------- Source
\* SourceBase::bind, lines 84-98: map the segment, find or construct the Node
BindOpen(c) ==
    /\ pc[c] = "new"
    /\ OpenOrCreate
    /\ node_' = [node_ EXCEPT ![c] = Mapped]
    /\ pc' = [pc EXCEPT ![c] = "bind"]
    /\ UNCHANGED <<nodeVars, this_index_, shmem_bound_, tmp, observed, joined, sinkVars>>
    /\ UNCHANGED blockedAtEnd
    /\ UNCHANGED envVars

\* mutant of BindSetsBound: bind() forgets to record that it attached
BindLeavesUnbound == FALSE

\* SourceBase::bind, line 102: shmem_bound_ = true
BindSetsBound == TRUE

\* SourceBase::bind, lines 100-102: take a slot; a throw leaves shmem_bound_ false
BindAttach(c) ==
    /\ pc[c] = "bind"
    /\ LET s == node_[c] IN
       IF TooManyConsumers(s)
       THEN /\ pc' = [pc EXCEPT ![c] = "bind_threw"]
            /\ UNCHANGED <<source_ref_count, slots, this_index_, shmem_bound_, joined>>
       ELSE /\ joined' = [joined EXCEPT ![c] = Published(s)]
            /\ this_index_' = [this_index_ EXCEPT ![c] = incrementSourceRefCount(s)]
            /\ slots' = [slots EXCEPT ![s] = @ \cup {incrementSourceRefCount(s)}]
            /\ source_ref_count' = [source_ref_count EXCEPT ![s] = @ + 1]
            /\ shmem_bound_' = [shmem_bound_ EXCEPT ![c] = BindSetsBound]
            /\ pc' = [pc EXCEPT ![c] = "attached"]
    /\ UNCHANGED <<linked, nsegs, sink_state, source_read_count, write_number,
                   write_barrier, read_barrier, node_, tmp, observed, sinkVars>>
    /\ UNCHANGED blockedAtEnd
    /\ UNCHANGED envVars

\* SourceBase::connect: wait() only if no sink is bound
ConnectBlocks(s) == sink_state[s] # "BOUND"

Connect(c) ==
    /\ pc[c] = "attached"
    /\ pc' = [pc EXCEPT ![c] = IF ConnectBlocks(node_[c]) THEN "connect_wait" ELSE "retrieve"]
    /\ UNCHANGED <<linked, nsegs, nodeVars, node_, this_index_, shmem_bound_, tmp,
                   observed, joined, sinkVars>>
    /\ UNCHANGED blockedAtEnd
    /\ UNCHANGED envVars

\* consumer c is inside wait() (called directly or by connect()) and its
\* read barrier holds no token
Blocked(c) ==
    /\ pc[c] \in {"connect_wait", "wait"}
    /\ read_barrier[node_[c]][this_index_[c]] = 0

\* SourceBase::wait: the loop ends when timed_wait takes a token of the read barrier
WaitReleased(s, i) == read_barrier[s][i] > 0

WaitReturn(c) ==
    /\ pc[c] \in {"connect_wait", "wait"}
    /\ WaitReleased(node_[c], this_index_[c])
    /\ read_barrier' = [read_barrier EXCEPT ![node_[c]][this_index_[c]] = @ - 1]
    /\ pc' = [pc EXCEPT ![c] = IF pc[c] = "wait" THEN "read" ELSE "retrieve"]
    /\ UNCHANGED <<linked, nsegs, sink_state, source_ref_count, source_read_count,
                   write_number, write_barrier, slots, node_, this_index_,
                   shmem_bound_, tmp, observed, joined, sinkVars>>
    /\ blockedAtEnd' = blockedAtEnd \ {c}
    /\ UNCHANGED envVars

\* mutant of ReadThrows: read() hands out the payload whatever the sink state
ReadNeverThrows(s) == FALSE

\* SourceBase::read, line 109: throws unless a sink is bound
ReadThrows(s) == sink_state[s] # "BOUND"

\* Recorder::connectToNodes: retrieve() reads the payload after connect()
\* returned (Source<SharedCVMat>::connect calls read() itself)
Retrieve(c) ==
    /\ pc[c] = "retrieve"
    /\ pc' = [pc EXCEPT ![c] = IF ReadThrows(node_[c]) THEN "threw" ELSE "wait"]
    /\ UNCHANGED <<linked, nsegs, nodeVars, node_, this_index_, shmem_bound_, tmp,
                   observed, joined, sinkVars>>
    /\ UNCHANGED blockedAtEnd
    /\ UNCHANGED envVars

\* Recorder::writeStreams: write_number() and clone() between wait() and post()
Read(c) ==
    /\ pc[c] = "read"
    /\ observed' = [observed EXCEPT ![c] = Append(@, write_number[node_[c]])]
    /\ pc' = [pc EXCEPT ![c] = "post"]
    /\ UNCHANGED <<linked, nsegs, nodeVars, node_, this_index_, shmem_bound_, tmp,
                   joined, sinkVars>>
    /\ UNCHANGED blockedAtEnd
    /\ UNCHANGED envVars

\* SourceBase::post: incrementSourceReadCount() == source_ref_count()
PostReleasesSink(count, refs) == count = refs

\* the operands of == are evaluated in either order; this is the first of them
PostFirst(c) ==
    /\ pc[c] \in {"post", "d_post", "m_post"}
    /\ LET s == node_[c]
           d == IF pc[c] = "d_post" THEN "d_" ELSE IF pc[c] = "m_post" THEN "m_" ELSE ""
       IN \/ /\ source_read_count' = [source_read_count EXCEPT ![s] = incrementSourceReadCount(s)]
             /\ tmp' = [tmp EXCEPT ![c] = incrementSourceReadCount(s)]
             /\ pc' = [pc EXCEPT ![c] = d \o "post_inc"]
          \/ /\ tmp' = [tmp EXCEPT ![c] = source_ref_count[s]]
             /\ pc' = [pc EXCEPT ![c] = d \o "post_ref"]
             /\ UNCHANGED source_read_count
    /\ UNCHANGED <<linked, nsegs, sink_state, source_ref_count, write_number,
                   write_barrier, read_barrier, slots, node_, this_index_,
                   shmem_bound_, observed, joined, sinkVars>>
    /\ UNCHANGED blockedAtEnd
    /\ UNCHANGED envVars

\* the second operand, the comparison and write_barrier.post()
PostSecond(c) ==
    /\ pc[c] \in {"post_inc", "post_ref", "d_post_inc", "d_post_ref",
                 "m_post_inc", "m_post_ref"}
    /\ LET s == node_[c]
           incFirst == pc[c] \in {"post_inc", "d_post_inc", "m_post_inc"}
           count == IF incFirst THEN tmp[c] ELSE incrementSourceReadCount(s)
           refs == IF incFirst THEN source_ref_count[s] ELSE tmp[c]
       IN /\ source_read_count' =
                IF incFirst THEN source_read_count
                ELSE [source_read_count EXCEPT ![s] = incrementSourceReadCount(s)]
          /\ write_barrier' =
                IF PostReleasesSink(count, refs)
                THEN [write_barrier EXCEPT ![s] = @ + 1]
                ELSE write_barrier
    /\ tmp' = [tmp EXCEPT ![c] = 0]
    /\ pc' = [pc EXCEPT ![c] = IF pc[c] \in {"d_post_inc", "d_post_ref"}
                                THEN "d_remove" ELSE "wait"]
    /\ UNCHANGED <<linked, nsegs, sink_state, source_ref_count, write_number,
                   read_barrier, slots, node_, this_index_, shmem_bound_, observed, joined,
                   sinkVars>>
    /\ UNCHANGED blockedAtEnd
    /\ UNCHANGED envVars

\* the quit flag was set while the consumer was inside wait(): the loop of
\* lines 127-131 tests only timed_wait, so it goes on until a token arrives
InWaitLoop(c) == quit[c] /\ pc[c] \in {"connect_wait", "wait"}

\* positions at which a Source can go out of scope: between two calls, or on
\* an exception leaving wait() (positionfilter/main.cpp, run) or the critical
\* section (Recorder::writeStreams, frame buffer overrun)
Destructible == {"new", "attached", "connect_wait", "retrieve", "wait", "read", "post",
                 "threw", "interrupted", "bind_threw"}

\* mutant of Bound: the destructor tests node_ instead of shmem_bound_
Mapping(c) == node_[c] # NoSeg

\* ~SourceBase, line 69: shmem_bound_
Bound(c) == shmem_bound_[c]

\* ~SourceBase, lines 69-70: shmem_bound_ && decrementSourceRefCount() == 0
DtorDecrement(c) ==
    /\ pc[c] \in Destructible
    /\ ~InWaitLoop(c)
    /\ LET s == node_[c] IN
       IF Bound(c)
       THEN /\ source_ref_count' = [source_ref_count EXCEPT ![s] = decrementSourceRefCount(s)]
            /\ slots' = [slots EXCEPT ![s] = @ \ {this_index_[c]}]
            /\ pc' = [pc EXCEPT ![c] = IF decrementSourceRefCount(s) = 0 THEN "d_state" ELSE "done"]
       ELSE /\ pc' = [pc EXCEPT ![c] = "done"]
            /\ UNCHANGED <<source_ref_count, slots>>
    /\ UNCHANGED <<linked, nsegs, sink_state, source_read_count, write_number,
                   write_barrier, read_barrier, node_, this_index_, shmem_bound_,
                   tmp, observed, joined, sinkVars>>
    /\ blockedAtEnd' = blockedAtEnd \ {c}
    /\ UNCHANGED envVars

\* mutant of NoSinkBound: only a Node no sink ever bound counts as free
NeverBound(s) == sink_state[s] = "UNDEFINED"

\* ~SourceBase, line 71: sink_state() != BOUND
NoSinkBound(s) == sink_state[s] # "BOUND"

DtorCheckSink(c) ==
    /\ pc[c] = "d_state"
    /\ pc' = [pc EXCEPT ![c] = IF NoSinkBound(node_[c]) THEN "d_post" ELSE "done"]
    /\ UNCHANGED <<linked, nsegs, nodeVars, node_, this_index_, shmem_bound_, tmp,
                   observed, joined, sinkVars>>
    /\ UNCHANGED blockedAtEnd
    /\ UNCHANGED envVars

\* ~SourceBase, line 76: shared_memory_object::remove(address_)
DtorRemove(c) ==
    /\ pc[c] = "d_remove"
    /\ Remove
    /\ pc' = [pc EXCEPT ![c] = "done"]
    /\ UNCHANGED <<nsegs, nodeVars, node_, this_index_, shmem_bound_, tmp,
                   observed, joined, sinkVars>>
    /\ UNCHANGED blockedAtEnd
    /\ UNCHANGED envVars

\* a consumer process dies while it holds a slot: nothing is released
Crashable == {"attached", "connect_wait", "retrieve", "wait", "read", "post",
              "post_inc", "post_ref"}

Crash(c) ==
    /\ pc[c] \in Crashable
    /\ pc' = [pc EXCEPT ![c] = "crashed"]
    /\ UNCHANGED <<linked, nsegs, nodeVars, node_, this_index_, shmem_bound_, tmp,
                   observed, joined, sinkVars>>
    /\ blockedAtEnd' = blockedAtEnd \ {c}
    /\ UNCHANGED envVars

\* a consumer calls retrieve()/read() on a Source it has not connect()ed
ReadUnconnected(c) ==
    /\ pc[c] = "attached"
    /\ pc' = [pc EXCEPT ![c] = IF ReadThrows(node_[c]) THEN "threw" ELSE "wait"]
    /\ UNCHANGED <<linked, nsegs, nodeVars, node_, this_index_, shmem_bound_, tmp,
                   observed, joined, sinkVars>>
    /\ UNCHANGED blockedAtEnd
    /\ UNCHANGED envVars

\* a consumer that has completed a cycle calls post() again without a wait()
PostWithoutWait(c) ==
    /\ pc[c] = "wait"
    /\ ~quit[c]
    /\ source_read_count[node_[c]] < MaxReadCount
    /\ pc' = [pc EXCEPT ![c] = "m_post"]
    /\ UNCHANGED <<linked, nsegs, nodeVars, node_, this_index_, shmem_bound_, tmp,
                   observed, joined, sinkVars>>
    /\ blockedAtEnd' = blockedAtEnd \ {c}
    /\ UNCHANGED envVars

\* a consumer calls bind() a second time on a Source that is attached:
\* lines 89-102 run again, this_index_ is overwritten
BindAgain(c) ==
    /\ pc[c] = "attached"
    /\ OpenOrCreate
    /\ LET s == Mapped IN
       /\ node_' = [node_ EXCEPT ![c] = s]
       /\ IF TooManyConsumers(s)
          THEN /\ pc' = [pc EXCEPT ![c] = "threw"]
               /\ UNCHANGED <<source_ref_count, slots, this_index_>>
          ELSE /\ this_index_' = [this_index_ EXCEPT ![c] = incrementSourceRefCount(s)]
               /\ slots' = [slots EXCEPT ![s] = @ \cup {incrementSourceRefCount(s)}]
               /\ source_ref_count' = [source_ref_count EXCEPT ![s] = @ + 1]
               /\ UNCHANGED pc
    /\ UNCHANGED <<sink_state, source_read_count, write_number, write_barrier,
                   read_barrier, shmem_bound_, tmp, observed, joined, sinkVars>>
    /\ UNCHANGED blockedAtEnd
    /\ UNCHANGED envVars

\* the component of a dead consumer process is started again: a new process
\* constructs a new Source; what the dead one held in the Node stays held
Restart(c) ==
    /\ pc[c] = "crashed"
    /\ pc' = [pc EXCEPT ![c] = "new"]
    /\ node_' = [node_ EXCEPT ![c] = NoSeg]
    /\ this_index_' = [this_index_ EXCEPT ![c] = 0]
    /\ shmem_bound_' = [shmem_bound_ EXCEPT ![c] = FALSE]
    /\ tmp' = [tmp EXCEPT ![c] = 0]
    /\ observed' = [observed EXCEPT ![c] = <<>>]
    /\ joined' = [joined EXCEPT ![c] = 0]
    /\ UNCHANGED <<linked, nsegs, nodeVars, sinkVars>>
    /\ UNCHANGED blockedAtEnd
    /\ UNCHANGED envVars

\* SIGINT reaches a consumer process that is inside wait(): sigHandler sets
\* quit; the signal either interrupts the pending timed_wait, which throws out
\* of wait(), or is handled between two timed_wait calls
SigInt(c) ==
    /\ pc[c] \in {"connect_wait", "wait"}
    /\ ~quit[c]
    /\ quit' = [quit EXCEPT ![c] = TRUE]
    /\ \/ pc' = [pc EXCEPT ![c] = "interrupted"]
       \/ UNCHANGED pc
    /\ UNCHANGED <<linked, nsegs, nodeVars, node_, this_index_, shmem_bound_, tmp,
                   observed, joined, sinkVars, rpc, rnode, mainVars, recVars, detVars>>
    /\ blockedAtEnd' = blockedAtEnd \ {c}

\* ------------------------------------------------------------------- Sink
\* bind: open or create the segment, find or construct the Node
SinkOpen ==
    /\ spc = "new"
    /\ OpenOrCreate
    /\ snode' = Mapped
    /\ spc' = "s_bind"
    /\ UNCHANGED <<nodeVars, srcVars, si>>
    /\ UNCHANGED blockedAtEnd
    /\ UNCHANGED envVars

\* bind fails with already-bound: another sink holds the Node
AlreadyBound(s) == sink_state[s] = "BOUND"

\* bind: sink_state = BOUND, unless another sink holds the Node; the test and
\* the assignment are one step under the Node's mutex
SinkSetBound ==
    /\ spc = "s_bind"
    /\ IF AlreadyBound(snode)
       THEN /\ spc' = "s_done"
            /\ UNCHANGED sink_state
       ELSE /\ sink_state' = [sink_state EXCEPT ![snode] = SetSinkState(snode, "BOUND")]
            /\ spc' = "s_idle"
    /\ UNCHANGED <<linked, nsegs, source_ref_count, source_read_count, write_number,
                   write_barrier, read_barrier, slots, srcVars, snode, si>>
    /\ UNCHANGED blockedAtEnd
    /\ UNCHANGED envVars

\* the producer starts a cycle
SinkCallWait ==
    /\ spc = "s_idle"
    /\ write_number[snode] < MaxWrite
    /\ spc' = "s_wait"
    /\ UNCHANGED <<linked, nsegs, nodeVars, srcVars, snode, si>>
    /\ UNCHANGED blockedAtEnd
    /\ UNCHANGED envVars

\* mutant of SinkProceedsEmpty: wait() always takes the write barrier's token
SinkAlwaysWaits(s) == FALSE

\* wait(): proceeds at once with no consumer attached, else takes the
\* write barrier's token; a timeout re-checks source_ref_count
SinkProceedsEmpty(s) == source_ref_count[s] = 0

SinkWaitReturn ==
    /\ spc = "s_wait"
    /\ IF SinkProceedsEmpty(snode)
       THEN UNCHANGED write_barrier
       ELSE /\ write_barrier[snode] > 0
            /\ write_barrier' = [write_barrier EXCEPT ![snode] = @ - 1]
    /\ spc' = "s_mutate"
    /\ UNCHANGED <<linked, nsegs, sink_state, source_ref_count, source_read_count,
                   write_number, read_barrier, slots, srcVars, snode, si>>
    /\ UNCHANGED blockedAtEnd
    /\ UNCHANGED envVars

\* mutant of incrementWriteNumber: a publication skips an id
skipWriteNumber(s) == write_number[s] + 2

\* the id the publication gives the sample
incrementWriteNumber(s) == write_number[s] + 1

\* the producer mutates the payload in place and increments write_number
SinkMutate ==
    /\ spc = "s_mutate"
    /\ write_number' = [write_number EXCEPT ![snode] = incrementWriteNumber(snode)]
    /\ spc' = "s_post"
    /\ UNCHANGED <<linked, nsegs, sink_state, source_ref_count, source_read_count,
                   write_barrier, read_barrier, slots, srcVars, snode, si>>
    /\ UNCHANGED blockedAtEnd
    /\ UNCHANGED envVars

\* post(): source_read_count = 0
SinkPostReset ==
    /\ spc = "s_post"
    /\ source_read_count' = [source_read_count EXCEPT ![snode] = 0]
    /\ si' = 0
    /\ spc' = "s_postloop"
    /\ UNCHANGED <<linked, nsegs, sink_state, source_ref_count, write_number,
                   write_barrier, read_barrier, slots, srcVars, snode>>
    /\ UNCHANGED blockedAtEnd
    /\ UNCHANGED envVars

\* post(): posts read_barrier[i] for i in [0, source_ref_count)
SinkPostBarrier ==
    /\ spc = "s_postloop"
    /\ IF si < source_ref_count[snode]
       THEN /\ read_barrier' = [read_barrier EXCEPT ![snode][si] = @ + 1]
            /\ si' = si + 1
            /\ spc' = spc
       ELSE /\ si' = 0
            /\ spc' = "s_idle"
            /\ UNCHANGED read_barrier
    /\ UNCHANGED <<linked, nsegs, sink_state, source_ref_count, source_read_count,
                   write_number, write_barrier, slots, srcVars, snode>>
    /\ UNCHANGED blockedAtEnd
    /\ UNCHANGED envVars

\* destruction: sink_state = END (a sink that never bound has nothing to do)
SinkSetEnd ==
    /\ spc \in {"new", "s_idle", "s_wait"}
    /\ IF spc = "new"
       THEN /\ spc' = "s_done"
            /\ UNCHANGED sink_state
       ELSE /\ sink_state' = [sink_state EXCEPT ![snode] = SetSinkState(snode, "END")]
            /\ spc' = "s_endpost"
    /\ UNCHANGED <<linked, nsegs, source_ref_count, source_read_count, write_number,
                   write_barrier, read_barrier, slots, srcVars, snode, si>>
    /\ blockedAtEnd' = IF spc = "new" THEN {} ELSE {c \in Consumers : Blocked(c)}
    /\ UNCHANGED envVars

\* destruction: the read barriers the sink posts
EndPosted == Slots

SinkEndPost ==
    /\ spc = "s_endpost"
    /\ read_barrier' = [read_barrier EXCEPT ![snode] =
                           [i \in Slots |-> IF i \in EndPosted THEN @[i] + 1 ELSE @[i]]]
    /\ spc' = "s_unlink"
    /\ UNCHANGED <<linked, nsegs, sink_state, source_ref_count, source_read_count,
                   write_number, write_barrier, slots, srcVars, snode, si>>
    /\ UNCHANGED blockedAtEnd
    /\ UNCHANGED envVars

\* destruction: if source_ref_count = 0, unlink the segment
SinkUnlinks(s) == source_ref_count[s] = 0

SinkUnlink ==
    /\ spc = "s_unlink"
    /\ IF SinkUnlinks(snode) THEN Remove ELSE UNCHANGED linked
    /\ spc' = "s_done"
    /\ UNCHANGED <<nsegs, nodeVars, srcVars, snode, si>>
    /\ UNCHANGED blockedAtEnd
    /\ UNCHANGED envVars

\* ------------------------------------------------------------ Second sink
\* another producer process binds a Sink on the same address; it is destroyed
\* without having published
RivalOpen ==
    /\ rpc = "new"
    /\ OpenOrCreate
    /\ rnode' = Mapped
    /\ rpc' = "r_bind"
    /\ UNCHANGED <<nodeVars, srcVars, sinkVars, blockedAtEnd, quit, mainVars, recVars,
                   detVars>>

RivalSetBound ==
    /\ rpc = "r_bind"
    /\ IF AlreadyBound(rnode)
       THEN /\ rpc' = "r_done"
            /\ UNCHANGED sink_state
       ELSE /\ sink_state' = [sink_state EXCEPT ![rnode] = SetSinkState(rnode, "BOUND")]
            /\ rpc' = "r_bound"
    /\ UNCHANGED <<linked, nsegs, source_ref_count, source_read_count, write_number,
                   write_barrier, read_barrier, slots, srcVars, sinkVars,
                   blockedAtEnd, quit, rnode, mainVars,
                   recVars, detVars>>

RivalSetEnd ==
    /\ rpc = "r_bound"
    /\ sink_state' = [sink_state EXCEPT ![rnode] = SetSinkState(rnode, "END")]
    /\ rpc' = "r_endpost"
    /\ UNCHANGED <<linked, nsegs, source_ref_count, source_read_count, write_number,
                   write_barrier, read_barrier, slots, srcVars, sinkVars,
                   blockedAtEnd, quit, rnode, mainVars,
                   recVars, detVars>>

RivalEndPost ==
    /\ rpc = "r_endpost"
    /\ read_barrier' = [read_barrier EXCEPT ![rnode] =
                           [i \in Slots |-> IF i \in EndPosted THEN @[i] + 1 ELSE @[i]]]
    /\ rpc' = "r_unlink"
    /\ UNCHANGED <<linked, nsegs, sink_state, source_ref_count, source_read_count,
                   write_number, write_barrier, slots, srcVars, sinkVars,
                   blockedAtEnd, quit, rnode, mainVars,
                   recVars, detVars>>

RivalUnlink ==
    /\ rpc = "r_unlink"
    /\ IF SinkUnlinks(rnode) THEN Remove ELSE UNCHANGED linked
    /\ rpc' = "r_done"
    /\ UNCHANGED <<nsegs, nodeVars, srcVars, sinkVars, blockedAtEnd, quit, rnode, mainVars,
                   recVars, detVars>>

RivalStep ==
    \/ RivalOpen \/ RivalSetBound \/ RivalSetEnd \/ RivalEndPost \/ RivalUnlink

\* ------------------------------------------------------- Component main()
\* main() goes on to position p
Goto(p) == mpc' = p /\ UNCHANGED <<ret, mexit, cause>>

\* main() executes `return code`; why is the reason the path was taken
Return(code, why) ==
    mpc' = "exited" /\ mexit' = "returned" /\ ret' = code /\ cause' = why

\* an exception leaves main(): std::terminate, main() returns nothing
Terminate(why) ==
    mpc' = "exited" /\ mexit' = "terminated" /\ cause' = why /\ UNCHANGED ret

\* a component is started on some command line
MainStart ==
    /\ mpc = "none"
    /\ \E comp \in {"posifilt", "frameserve"}, a \in ArgSets :
          /\ component' = comp
          /\ args' = a
    /\ Goto("parse")
    /\ UNCHANGED <<filter, main_quit, source_eof, process_calls>>
    /\ UNCHANGED <<nodeSideVars, recVars, detVars>>
    /\ UNCHANGED ex_code

\* sigHandler: quit = 1
MainSigInt ==
    /\ mpc \notin {"none", "exited"}
    /\ ~main_quit
    /\ main_quit' = TRUE
    /\ UNCHANGED <<component, args, mpc, ret, mexit, cause, filter, source_eof,
                   process_calls>>
    /\ UNCHANGED <<nodeSideVars, recVars, detVars>>
    /\ UNCHANGED ex_code

\* posifilt main, lines 166-176 and the handlers of lines 282-299
PosifiltParse ==
    /\ component = "posifilt" /\ mpc = "parse"
    /\ IF args.parse = "ok" THEN Goto("specialize") ELSE Return(-1, "argument")
    /\ UNCHANGED <<component, args, filter, main_quit, source_eof, process_calls>>
    /\ UNCHANGED <<nodeSideVars, recVars, detVars>>
    /\ UNCHANGED ex_code

\* posifilt main, lines 178-211: switch (type_hash[type])
PosifiltSpecialize ==
    /\ component = "posifilt" /\ mpc = "specialize"
    /\ IF args.type = "none"
       THEN Goto("info") /\ UNCHANGED filter
       ELSE IF args.type = "ok"
            THEN \/ Goto("info") /\ filter' = TRUE
                 \/ Return(-1, "runtime") /\ UNCHANGED filter
            ELSE Return(-1, "argument") /\ UNCHANGED filter
    /\ UNCHANGED <<component, args, main_quit, source_eof, process_calls>>
    /\ UNCHANGED <<nodeSideVars, recVars, detVars>>
    /\ UNCHANGED ex_code

\* posifilt main, lines 214-222: help and version
PosifiltInfo ==
    /\ component = "posifilt" /\ mpc = "info"
    /\ IF args.help THEN Return(0, "help")
       ELSE IF args.version THEN Return(0, "version")
       ELSE Goto("io")
    /\ UNCHANGED <<component, args, filter, main_quit, source_eof, process_calls>>
    /\ UNCHANGED <<nodeSideVars, recVars, detVars>>
    /\ UNCHANGED ex_code

\* mutant of io_error: a missing TYPE is not an error
io_error_without_type == ~args.source \/ ~args.sink

\* posifilt main, lines 225-241: io_error
io_error == args.type = "none" \/ ~args.source \/ ~args.sink

\* posifilt main, lines 225-247: TYPE, SOURCE and SINK must be given
PosifiltCheckIO ==
    /\ component = "posifilt" /\ mpc = "io"
    /\ IF io_error
       THEN Return(-1, "argument")
       ELSE Goto("configure")
    /\ UNCHANGED <<component, args, filter, main_quit, source_eof, process_calls>>
    /\ UNCHANGED <<nodeSideVars, recVars, detVars>>
    /\ UNCHANGED ex_code

\* posifilt main, lines 250-262: the second parse and configure() may throw
PosifiltConfigure ==
    /\ component = "posifilt" /\ mpc = "configure"
    /\ \/ Goto("connect")
       \/ Return(-1, "argument")
       \/ Return(-1, "runtime")
    /\ UNCHANGED <<component, args, filter, main_quit, source_eof, process_calls>>
    /\ UNCHANGED <<nodeSideVars, recVars, detVars>>
    /\ UNCHANGED ex_code

\* error codes of the interprocess_exceptions that reach run()'s handler
ErrorCodes == {1, 2}

\* mutant of EndsNormally: every interprocess_exception ends run() normally
AlwaysEndsNormally(code) == TRUE

\* posifilt run, line 107: only error code 1 is not thrown again
EndsNormally(code) == code = 1

\* posifilt run, lines 103-109: an interprocess_exception is caught. Error
\* code 1 is a SIGINT during wait(): run() returns and main returns 0; any
\* other is thrown again and reaches main's handlers
Caught(code) ==
    /\ ex_code' = code
    /\ main_quit' = (main_quit \/ code = 1)
    /\ IF EndsNormally(code) THEN Return(0, "sigint") ELSE Return(-1, "runtime")

\* posifilt run, lines 96-98 and 103-109: connectToNode() returns, is
\* interrupted by SIGINT (error code 1, run() returns and main returns 0) or
\* throws something else
PosifiltConnect ==
    /\ component = "posifilt" /\ mpc = "connect"
    /\ \/ Goto("loop") /\ UNCHANGED <<main_quit, ex_code>>
       \/ \E code \in ErrorCodes : Caught(code)
       \/ Return(-1, "runtime") /\ UNCHANGED <<main_quit, ex_code>>
    /\ UNCHANGED <<component, args, filter, source_eof, process_calls>>
    /\ UNCHANGED <<nodeSideVars, recVars, detVars>>

\* frameserve main, lines 112-117 and the handlers of lines 160-165: a
\* std::exception returns 1; after catch (...) main goes on to create the
\* camera with whatever notify() stored in type
FrameserveParse ==
    /\ component = "frameserve" /\ mpc = "parse"
    /\ IF args.parse = "ok" THEN Goto("info") /\ UNCHANGED args
       ELSE IF args.parse = "po_error" THEN Return(1, "argument") /\ UNCHANGED args
       ELSE /\ Goto("create")
            /\ \E t \in {args.type, "none"} : args' = [args EXCEPT !.type = t]
    /\ UNCHANGED <<component, filter, main_quit, source_eof, process_calls>>
    /\ UNCHANGED <<nodeSideVars, recVars, detVars>>
    /\ UNCHANGED ex_code

\* frameserve main, lines 120-130: help and version
FrameserveInfo ==
    /\ component = "frameserve" /\ mpc = "info"
    /\ IF args.help THEN Return(0, "help")
       ELSE IF args.version THEN Return(0, "version")
       ELSE Goto("check")
    /\ UNCHANGED <<component, args, filter, main_quit, source_eof, process_calls>>
    /\ UNCHANGED <<nodeSideVars, recVars, detVars>>
    /\ UNCHANGED ex_code

\* frameserve main, lines 132-157
FrameserveCheck ==
    /\ component = "frameserve" /\ mpc = "check"
    /\ IF \/ args.type = "none"
          \/ ~args.sink
          \/ args.config_file # args.config_key
          \/ (args.type = "file" /\ ~args.video_file)
       THEN Return(-1, "argument")
       ELSE Goto("create")
    /\ UNCHANGED <<component, args, filter, main_quit, source_eof, process_calls>>
    /\ UNCHANGED <<nodeSideVars, recVars, detVars>>
    /\ UNCHANGED ex_code

\* frameserve main, lines 168-191: switch (type_hash[type]); the camera's
\* constructor runs outside every try block
FrameserveCreate ==
    /\ component = "frameserve" /\ mpc = "create"
    /\ IF args.type \in {"ok", "file"}
       THEN \/ Goto("configure") /\ filter' = TRUE
            \/ Terminate("runtime") /\ UNCHANGED filter
       ELSE Return(-1, "argument") /\ UNCHANGED filter
    /\ UNCHANGED <<component, args, main_quit, source_eof, process_calls>>
    /\ UNCHANGED <<nodeSideVars, recVars, detVars>>
    /\ UNCHANGED ex_code

\* frameserve main, lines 193-196: configure() runs outside every try block
FrameserveConfigure ==
    /\ component = "frameserve" /\ mpc = "configure"
    /\ \/ Goto("loop")
       \/ Terminate("runtime")
    /\ UNCHANGED <<component, args, filter, main_quit, source_eof, process_calls>>
    /\ UNCHANGED <<nodeSideVars, recVars, detVars>>
    /\ UNCHANGED ex_code

\* run(): the test of `while (!quit && !source_eof)`; when it fails run()
\* returns and main returns 0
RunLoopCheck ==
    /\ mpc = "loop"
    /\ IF main_quit \/ source_eof
       THEN Return(0, IF source_eof THEN "eof" ELSE "sigint")
       ELSE Goto("process")
    /\ UNCHANGED <<component, args, filter, main_quit, source_eof, process_calls>>
    /\ UNCHANGED <<nodeSideVars, recVars, detVars>>
    /\ UNCHANGED ex_code

\* run(): one call of process() / serveMat(). It returns whether the stream
\* ended, or throws: in posifilt an interprocess_exception with error code 1
\* ends run() normally and anything else reaches main's handlers; frameserve
\* has no handler around run()
RunProcess ==
    /\ mpc = "process"
    /\ process_calls' = process_calls + 1
    /\ \/ /\ process_calls + 1 < MaxProcess
          /\ Goto("loop") /\ UNCHANGED <<source_eof, main_quit, ex_code>>
       \/ /\ Goto("loop") /\ source_eof' = TRUE /\ UNCHANGED <<main_quit, ex_code>>
       \/ /\ component = "posifilt"
          /\ \E code \in ErrorCodes : Caught(code)
          /\ UNCHANGED source_eof
       \/ /\ IF component = "posifilt" THEN Return(-1, "runtime")
                                       ELSE Terminate("runtime")
          /\ UNCHANGED <<source_eof, main_quit, ex_code>>
    /\ UNCHANGED <<component, args, filter>>
    /\ UNCHANGED <<nodeSideVars, recVars, detVars>>

MainStep ==
    \/ MainStart \/ MainSigInt
    \/ PosifiltParse \/ PosifiltSpecialize \/ PosifiltInfo \/ PosifiltCheckIO
    \/ PosifiltConfigure \/ PosifiltConnect
    \/ FrameserveParse \/ FrameserveInfo \/ FrameserveCheck \/ FrameserveCreate
    \/ FrameserveConfigure
    \/ RunLoopCheck \/ RunProcess

\* one component process, from its command line to its exit
SpecMain == Init /\ [][MainStep]_vars

\* --------------------------------------------------------------- Recorder
\* frame source i and position source i of the Recorder
FrameSource(i) == <<"frame", i>>

PositionSource(i) == <<"position", i>>

\* mutant of LatchEof: source_eof_ = (wait() == END)
OverwriteEof(eof, end) == end

\* writeStreams, lines 195 and 218: source_eof_ |= (wait() == END)
LatchEof(eof, end) == eof \/ end

\* wait() on source src may return END; once a source has returned END (its
\* sink_state is END for good) it returns END again
WaitOutcomes(src) == IF src \in ended THEN {TRUE} ELSE BOOLEAN

\* the position writeStreams goes to when its frame loop is over
AfterFrames == IF PositionSources # {} THEN "p_wait" ELSE "ret"

\* Recorder::Recorder: the queues are created and the writer threads spawned
RecorderStart ==
    /\ recpc = "none"
    /\ recpc' = "touch_f"
    /\ rec_i' = 1
    /\ record_on_' \in BOOLEAN
    /\ wpc' = [w \in Writers |-> "check"]
    /\ UNCHANGED <<source_eof_, running_, frame_write_buffers_, written, pushed,
                   in_section, ended, rec_ret, stream_calls>>
    /\ UNCHANGED <<nodeSideVars, mainVars, detVars>>
    /\ UNCHANGED <<touched, connected>>

\* mutant of AfterFrameTouches: the position sources are not touched
ConnectAfterFrameTouches == "connect_f"

\* connectToNodes, lines 139-141: after the frame sources, touch() the
\* position sources
AfterFrameTouches == IF PositionSources # {} THEN "touch_p" ELSE "connect_f"

\* the position connectToNodes goes to when its frame connect loop is over
AfterFrameConnects == IF PositionSources # {} THEN "connect_p" ELSE "idle"

\* connectToNodes, lines 136-137: touch() on frame source i
TouchFrame ==
    /\ recpc = "touch_f"
    /\ touched' = touched \cup {FrameSource(rec_i)}
    /\ IF rec_i < NumWriters
       THEN rec_i' = rec_i + 1 /\ UNCHANGED recpc
       ELSE rec_i' = 1 /\ recpc' = AfterFrameTouches
    /\ UNCHANGED <<record_on_, source_eof_, running_, frame_write_buffers_, wpc,
                   written, pushed, in_section, ended, rec_ret, stream_calls, connected>>
    /\ UNCHANGED <<nodeSideVars, mainVars, detVars>>

\* connectToNodes, lines 140-141: touch() on position source i
TouchPosition ==
    /\ recpc = "touch_p"
    /\ touched' = touched \cup {PositionSource(rec_i)}
    /\ IF rec_i < NumPositionSources
       THEN rec_i' = rec_i + 1 /\ UNCHANGED recpc
       ELSE rec_i' = 1 /\ recpc' = "connect_f"
    /\ UNCHANGED <<record_on_, source_eof_, running_, frame_write_buffers_, wpc,
                   written, pushed, in_section, ended, rec_ret, stream_calls, connected>>
    /\ UNCHANGED <<nodeSideVars, mainVars, detVars>>

\* connectToNodes, lines 153-162: connect() and retrieve() on frame source i
ConnectFrame ==
    /\ recpc = "connect_f"
    /\ connected' = Append(connected, FrameSource(rec_i))
    /\ IF rec_i < NumWriters
       THEN rec_i' = rec_i + 1 /\ UNCHANGED recpc
       ELSE rec_i' = 1 /\ recpc' = AfterFrameConnects
    /\ UNCHANGED <<record_on_, source_eof_, running_, frame_write_buffers_, wpc,
                   written, pushed, in_section, ended, rec_ret, stream_calls, touched>>
    /\ UNCHANGED <<nodeSideVars, mainVars, detVars>>

\* connectToNodes, lines 165-185: connect() and retrieve() on position source
\* i; after the last one the sample rate is set and connectToNodes returns
ConnectPosition ==
    /\ recpc = "connect_p"
    /\ connected' = Append(connected, PositionSource(rec_i))
    /\ IF rec_i < NumPositionSources
       THEN rec_i' = rec_i + 1 /\ UNCHANGED recpc
       ELSE rec_i' = 0 /\ recpc' = "idle"
    /\ UNCHANGED <<record_on_, source_eof_, running_, frame_write_buffers_, wpc,
                   written, pushed, in_section, ended, rec_ret, stream_calls, touched>>
    /\ UNCHANGED <<nodeSideVars, mainVars, detVars>>

\* the owner of the Recorder calls writeStreams
WriteStreamsCall ==
    /\ recpc = "idle"
    /\ stream_calls < MaxStreamCalls
    /\ stream_calls' = stream_calls + 1
    /\ rec_i' = 1
    /\ recpc' = IF Writers # {} THEN "f_wait" ELSE AfterFrames
    /\ UNCHANGED <<record_on_, source_eof_, running_, frame_write_buffers_, wpc,
                   written, pushed, in_section, ended, rec_ret>>
    /\ UNCHANGED <<nodeSideVars, mainVars, detVars>>
    /\ UNCHANGED <<touched, connected>>

\* writeStreams, line 195: wait() on frame source i returns
FrameWait ==
    /\ recpc = "f_wait"
    /\ \E end \in WaitOutcomes(FrameSource(rec_i)) :
          /\ source_eof_' = LatchEof(source_eof_, end)
          /\ ended' = IF end THEN ended \cup {FrameSource(rec_i)} ELSE ended
    /\ in_section' = in_section \cup {FrameSource(rec_i)}
    /\ recpc' = "f_push"
    /\ UNCHANGED <<rec_i, record_on_, running_, frame_write_buffers_, wpc, written,
                   pushed, rec_ret, stream_calls>>
    /\ UNCHANGED <<nodeSideVars, mainVars, detVars>>
    /\ UNCHANGED <<touched, connected>>

\* writeStreams, lines 198-203: push the frame, throw if the queue is full
FramePush ==
    /\ recpc = "f_push"
    /\ IF ~record_on_
       THEN /\ recpc' = "f_post"
            /\ UNCHANGED <<frame_write_buffers_, pushed>>
       ELSE IF Len(frame_write_buffers_[rec_i]) < QueueCapacity
            THEN /\ frame_write_buffers_' =
                       [frame_write_buffers_ EXCEPT ![rec_i] = Append(@, stream_calls)]
                 /\ pushed' = [pushed EXCEPT ![rec_i] = Append(@, stream_calls)]
                 /\ recpc' = "f_post"
            ELSE /\ recpc' = "threw"
                 /\ UNCHANGED <<frame_write_buffers_, pushed>>
    /\ UNCHANGED <<rec_i, record_on_, source_eof_, running_, wpc, written, in_section,
                   ended, rec_ret, stream_calls>>
    /\ UNCHANGED <<nodeSideVars, mainVars, detVars>>
    /\ UNCHANGED <<touched, connected>>

\* writeStreams, lines 206-211: notify_one, post(), next frame source
FramePost ==
    /\ recpc = "f_post"
    /\ in_section' = in_section \ {FrameSource(rec_i)}
    /\ IF rec_i < NumWriters
       THEN rec_i' = rec_i + 1 /\ recpc' = "f_wait"
       ELSE rec_i' = 1 /\ recpc' = AfterFrames
    /\ UNCHANGED <<record_on_, source_eof_, running_, frame_write_buffers_, wpc,
                   written, pushed, ended, rec_ret, stream_calls>>
    /\ UNCHANGED <<nodeSideVars, mainVars, detVars>>
    /\ UNCHANGED <<touched, connected>>

\* writeStreams, line 218: wait() on position source i returns
PositionWait ==
    /\ recpc = "p_wait"
    /\ \E end \in WaitOutcomes(PositionSource(rec_i)) :
          /\ source_eof_' = LatchEof(source_eof_, end)
          /\ ended' = IF end THEN ended \cup {PositionSource(rec_i)} ELSE ended
    /\ in_section' = in_section \cup {PositionSource(rec_i)}
    /\ recpc' = "p_post"
    /\ UNCHANGED <<rec_i, record_on_, running_, frame_write_buffers_, wpc, written,
                   pushed, rec_ret, stream_calls>>
    /\ UNCHANGED <<nodeSideVars, mainVars, detVars>>
    /\ UNCHANGED <<touched, connected>>

\* writeStreams, lines 220-226: copy the position, post(), next position source
PositionPost ==
    /\ recpc = "p_post"
    /\ in_section' = in_section \ {PositionSource(rec_i)}
    /\ IF rec_i < NumPositionSources
       THEN rec_i' = rec_i + 1 /\ recpc' = "p_wait"
       ELSE rec_i' = 1 /\ recpc' = "ret"
    /\ UNCHANGED <<record_on_, source_eof_, running_, frame_write_buffers_, wpc,
                   written, pushed, ended, rec_ret, stream_calls>>
    /\ UNCHANGED <<nodeSideVars, mainVars, detVars>>
    /\ UNCHANGED <<touched, connected>>

\* writeStreams, lines 230-233: return source_eof_
WriteStreamsReturn ==
    /\ recpc = "ret"
    /\ rec_ret' = Append(rec_ret, source_eof_)
    /\ recpc' = "idle"
    /\ rec_i' = 0
    /\ UNCHANGED <<record_on_, source_eof_, running_, frame_write_buffers_, wpc,
                   written, pushed, in_section, ended, stream_calls>>
    /\ UNCHANGED <<nodeSideVars, mainVars, detVars>>
    /\ UNCHANGED <<touched, connected>>

\* Recorder::~Recorder, lines 117-119: running_ = false, notify every writer.
\* The Recorder is destroyed between calls, or while the exception of
\* writeStreams unwinds
RecorderStop ==
    /\ recpc \in {"idle", "threw"}
    /\ running_' = FALSE
    /\ recpc' = "d_join"
    /\ UNCHANGED <<rec_i, record_on_, source_eof_, frame_write_buffers_, wpc, written,
                   pushed, in_section, ended, rec_ret, stream_calls>>
    /\ UNCHANGED <<nodeSideVars, mainVars, detVars>>
    /\ UNCHANGED <<touched, connected>>

\* Recorder::~Recorder, lines 122-130: join returns once every thread has exited
RecorderJoin ==
    /\ recpc = "d_join"
    /\ \A w \in Writers : wpc[w] = "exited"
    /\ recpc' = "destroyed"
    /\ UNCHANGED <<rec_i, record_on_, source_eof_, running_, frame_write_buffers_, wpc,
                   written, pushed, in_section, ended, rec_ret, stream_calls>>
    /\ UNCHANGED <<nodeSideVars, mainVars, detVars>>
    /\ UNCHANGED <<touched, connected>>

\* writeFramesToFileFromBuffer, line 239: while (running_)
WriterCheck(w) ==
    /\ wpc[w] = "check"
    /\ wpc' = [wpc EXCEPT ![w] = IF running_ THEN "wait_for" ELSE "exited"]
    /\ UNCHANGED <<recpc, rec_i, record_on_, source_eof_, running_,
                   frame_write_buffers_, written, pushed, in_section, ended, rec_ret,
                   stream_calls>>
    /\ UNCHANGED <<nodeSideVars, mainVars, detVars>>
    /\ UNCHANGED <<touched, connected>>

\* mutant of WaitForReturns: a wait with no timeout whose notify_one came
\* while the thread was not waiting
WaitForMissesNotify == FALSE

\* writeFramesToFileFromBuffer, line 242: wait_for(lk, 10 ms) returns after
\* its timeout at the latest
WaitForReturns == TRUE

\* writeFramesToFileFromBuffer, lines 241-242: wait_for returns, notified or
\* after its 10 ms
WriterWait(w) ==
    /\ wpc[w] = "wait_for"
    /\ WaitForReturns
    /\ wpc' = [wpc EXCEPT ![w] = "pop"]
    /\ UNCHANGED <<recpc, rec_i, record_on_, source_eof_, running_,
                   frame_write_buffers_, written, pushed, in_section, ended, rec_ret,
                   stream_calls>>
    /\ UNCHANGED <<nodeSideVars, mainVars, detVars>>
    /\ UNCHANGED <<touched, connected>>

\* writeFramesToFileFromBuffer, lines 244-253: pop and write one frame, or
\* find the queue empty and go back to the test of running_
WriterPop(w) ==
    /\ wpc[w] = "pop"
    /\ IF frame_write_buffers_[w] # <<>>
       THEN /\ written' = [written EXCEPT ![w] = Append(@, Head(frame_write_buffers_[w]))]
            /\ frame_write_buffers_' = [frame_write_buffers_ EXCEPT ![w] = Tail(@)]
            /\ UNCHANGED wpc
       ELSE /\ wpc' = [wpc EXCEPT ![w] = "check"]
            /\ UNCHANGED <<written, frame_write_buffers_>>
    /\ UNCHANGED <<recpc, rec_i, record_on_, source_eof_, running_, pushed, in_section,
                   ended, rec_ret, stream_calls>>
    /\ UNCHANGED <<nodeSideVars, mainVars, detVars>>
    /\ UNCHANGED <<touched, connected>>

RecorderStep ==
    \/ RecorderStart \/ TouchFrame \/ TouchPosition \/ ConnectFrame \/ ConnectPosition
    \/ WriteStreamsCall \/ FrameWait \/ FramePush \/ FramePost
    \/ PositionWait \/ PositionPost \/ WriteStreamsReturn
    \/ RecorderStop \/ RecorderJoin

WriterStep(w) == WriterCheck(w) \/ WriterWait(w) \/ WriterPop(w)

NextRecorder == RecorderStep \/ \E w \in Writers : WriterStep(w)

\* one Recorder, its owner thread and its frame writer threads
SpecRecorder == Init /\ [][NextRecorder]_vars

\* the same, every writer thread and the joining destructor being scheduled
SpecRecorderFair ==
    /\ SpecRecorder
    /\ \A w \in Writers : WF_vars(WriterStep(w))
    /\ WF_vars(RecorderJoin)

\* ------------------------------------------------------------ HSVDetector
\* contours one frame yields at most, and the largest contour area
MaxContours == 3

MaxArea == 3

Areas == 0..MaxArea

\* what findContours (RETR_CCOMP) returns: per contour its area (moment m00)
\* and whether it is a top-level contour, one of those the chain of
\* hierarchy[index][0] links starting at index 0 runs through
ContourLists ==
    UNION {[1..n -> [area : Areas, top : BOOLEAN]] : n \in 0..MaxContours}

\* mutant of Selects: the area range is not tested
SelectsAnyLarger(area, best) == area > best

\* siftBlobs, line 103: the contour replaces the best one found so far
Selects(area, best) ==
    area > min_object_area /\ area < max_object_area /\ area > best

\* siftBlobs, lines 95-110: the loop over the top-level contours from contour
\* i on; found holds object_area, position_valid and the contour whose
\* centroid object_position.position holds
RECURSIVE Sift(_, _)
Sift(i, found) ==
    IF i > Len(contours) THEN found
    ELSE IF contours[i].top /\ Selects(contours[i].area, found.area)
         THEN Sift(i + 1, [area |-> contours[i].area, valid |-> TRUE, pos |-> i])
         ELSE Sift(i + 1, found)

\* HSVDetector::HSVDetector and HSVDetector::configure: min_object_area
\* starts at 0 and max_object_area at the conversion of the largest double to
\* the integer the track bars point at, which no integer holds: any value.
\* A min_area or max_area of the configuration is assigned and then rejected
\* with an exception when negative
configure ==
    /\ dpc = "none"
    /\ \E has_min, has_max \in BOOLEAN, min_area \in -1..MaxArea,
          max_area, constructed \in -1..(MaxArea + 1) :
          /\ min_object_area' = IF has_min THEN min_area ELSE 0
          /\ max_object_area' = IF has_max /\ min_object_area' >= 0
                                THEN max_area ELSE constructed
          /\ dpc' = IF min_object_area' < 0 \/ (has_max /\ max_area < 0)
                    THEN "threw" ELSE "configured"
    /\ UNCHANGED <<contours, object_area, position_valid, object_position>>
    /\ UNCHANGED <<nodeSideVars, mainVars, recVars>>

\* a frame has been thresholded and findContours returns its contours; the
\* detector still holds the results of the previous frame
findContours ==
    /\ dpc = "configured"
    /\ dpc' = "ready"
    /\ contours' \in {cs \in ContourLists : cs # <<>> => cs[1].top}
    /\ object_area' \in {0, MaxArea}
    /\ position_valid' \in BOOLEAN
    /\ object_position' \in {0, 1}
    /\ UNCHANGED <<min_object_area, max_object_area>>
    /\ UNCHANGED <<nodeSideVars, mainVars, recVars>>

\* HSVDetector::siftBlobs, lines 92-110
siftBlobs ==
    /\ dpc = "ready"
    /\ dpc' = "sifted"
    /\ LET found == Sift(1, [area |-> 0, valid |-> FALSE, pos |-> object_position])
       IN /\ object_area' = found.area
          /\ position_valid' = found.valid
          /\ object_position' = found.pos
    /\ UNCHANGED <<contours, min_object_area, max_object_area>>
    /\ UNCHANGED <<nodeSideVars, mainVars, recVars>>

NextDetector == configure \/ findContours \/ siftBlobs

\* one frame through siftBlobs
SpecDetector == Init /\ [][NextDetector]_vars

\* ------------------------------------------------------------------- Next
SourceStep(c) ==
    \/ BindOpen(c) \/ BindAttach(c) \/ Connect(c) \/ WaitReturn(c)
    \/ Retrieve(c) \/ Read(c) \/ PostFirst(c) \/ PostSecond(c)
    \/ DtorDecrement(c) \/ DtorCheckSink(c) \/ DtorRemove(c) \/ Crash(c)

SinkStep ==
    \/ SinkOpen \/ SinkSetBound \/ SinkCallWait \/ SinkWaitReturn \/ SinkMutate
    \/ SinkPostReset \/ SinkPostBarrier \/ SinkSetEnd \/ SinkEndPost \/ SinkUnlink

Next == SinkStep \/ \E c \in Consumers : SourceStep(c)

Spec == Init /\ [][Next]_vars

\* two sinks on the address, and the first NumSinkConsumers consumers
NextSinks ==
    SinkStep \/ RivalStep \/ \E c \in 1..NumSinkConsumers : SourceStep(c)

SpecSinks == Init /\ [][NextSinks]_vars

\* the participants, and SIGINT delivered to consumer processes
NextSigInt == Next \/ \E c \in Consumers : SigInt(c)

SpecSigInt == Init /\ [][NextSigInt]_vars

\* the participants, and consumers that read without having connected
NextMisuse == Next \/ \E c \in Consumers : ReadUnconnected(c)

SpecMisuse == Init /\ [][NextMisuse]_vars

\* the participants, and consumers that post without having waited
NextPostMisuse == Next \/ \E c \in Consumers : PostWithoutWait(c)

SpecPostMisuse == Init /\ [][NextPostMisuse]_vars

\* the participants, and consumers that bind an attached Source again
NextBindMisuse == Next \/ \E c \in Consumers : BindAgain(c)

SpecBindMisuse == Init /\ [][NextBindMisuse]_vars

\* the participants, and dead consumer processes that are started again
NextRestart == Next \/ \E c \in Consumers : Restart(c)

SpecRestart == Init /\ [][NextRestart]_vars

\* ----------------------------------------------------------------- claims
NoCrash == \A c \in Consumers : pc[c] # "crashed"

\* the Source holds a slot: it attached and its destructor has not yet run
Attached(c) ==
    pc[c] \in {"attached", "connect_wait", "retrieve", "wait", "read", "post",
               "post_inc", "post_ref", "crashed", "threw", "interrupted",
               "m_post", "m_post_inc", "m_post_ref"}

Consecutive(q) == \A i \in 1..(Len(q) - 1) : q[i + 1] = q[i] + 1

Increasing(q) == \A i \in 1..(Len(q) - 1) : q[i + 1] > q[i]

\* C1 (exactly-once delivery): the write numbers a consumer observes in its
\* successive wait()/post() cycles are k, k+1, k+2, ...: while it is attached
\* it skips no sample and observes none twice.
C1_ExactlyOnce == \A c \in Consumers : Consecutive(observed[c])

\* the sink is between the return of its wait() and the completion of its post()
MutationPhase == spc \in {"s_mutate", "s_post", "s_postloop"}

\* the consumer reads the payload: after connect() returned (retrieve) or
\* between the return of wait() and post()
ReadSection(c) == pc[c] \in {"retrieve", "read", "post"}

\* C2 (payload mutual exclusion): while the sink is in its mutation phase no
\* consumer of its segment is in a read section.
C2_MutualExclusion ==
    \A c \in Consumers : ~(MutationPhase /\ ReadSection(c) /\ node_[c] = snode)

\* C3 (ordering): the write numbers a consumer observes in successive
\* wait()/post() cycles are strictly increasing.
C3_StrictlyIncreasing == \A c \in Consumers : Increasing(observed[c])

\* C4 (late join): a consumer that attached after sample k >= 1 was published
\* observes, in its first wait()/post() cycle, a write number of at least k+1.
C4_NoStaleOnLateJoin ==
    \A c \in Consumers :
        (joined[c] >= 1 /\ Len(observed[c]) >= 1) => observed[c][1] > joined[c]

\* the sink is inside wait() and neither of its two exits is open
SinkBlocked ==
    /\ spc = "s_wait"
    /\ ~SinkProceedsEmpty(snode)
    /\ write_barrier[snode] = 0

\* C5 (deadlock freedom without crashes): with no participant crashed, it is
\* never the case that the sink is blocked in wait() and every attached
\* consumer is blocked in wait() or connect(), no barrier holding a token that
\* would release one of them.
C5_NoDeadlock ==
    ~(/\ NoCrash
      /\ SinkBlocked
      /\ \E c \in Consumers : Attached(c) /\ node_[c] = snode
      /\ \A c \in Consumers : Attached(c) => Blocked(c))

\* C6 (teardown wake-up): once the sink's destructor has posted the read
\* barriers, every consumer that has been blocked in wait() or connect() since
\* before the destruction began finds a token on its read barrier.
C6_TeardownWakesAll ==
    spc \in {"s_unlink", "s_done"} =>
        \A c \in blockedAtEnd : WaitReleased(node_[c], this_index_[c])

\* C7 (end-of-stream indication): a wait() that returns while sink_state is
\* END does not take the consumer into its read section as a wait() that
\* returns ACTIVE with a fresh sample does.
C7_EndIndication ==
    [][\A c \in Consumers :
          (pc[c] = "wait" /\ sink_state[node_[c]] = "END" /\ pc'[c] # pc[c])
              => pc'[c] # "read"]_vars

\* every consumer process and the sink process have destroyed their objects
AllDestroyed == spc = "s_done" /\ \A c \in Consumers : pc[c] = "done"

\* C8 (clean teardown): once the sink and every source on the address have
\* been destroyed, the address names no segment.
C8_CleanTeardown == AllDestroyed => linked = NoSeg

\* a sink was bound, every consumer was attached, and all have been destroyed
C8_Witness ==
    /\ AllDestroyed
    /\ snode # NoSeg
    /\ \A c \in Consumers : shmem_bound_[c]

\* C9 (no premature unlink): whenever the name is removed, the segment it
\* named has source_ref_count = 0 and its sink_state is not BOUND.
C9_NoPrematureUnlink ==
    [][(linked # NoSeg /\ linked' = NoSeg)
          => (source_ref_count[linked] = 0 /\ sink_state[linked] # "BOUND")]_vars

\* C10 (ref-count conservation): on every segment, source_ref_count is the
\* number of Sources that attached to it and have not been destroyed, crashed
\* consumers' leaked slots included.
C10_RefCountConservation ==
    \A s \in Segs :
        source_ref_count[s] = Cardinality({c \in Consumers : node_[c] = s /\ Attached(c)})

\* one Source was destroyed after attaching, another crashed holding its slot
C10_Witness ==
    \E s \in Segs : \E c, d \in Consumers :
        /\ node_[c] = s /\ node_[d] = s
        /\ pc[c] = "crashed"
        /\ pc[d] = "done" /\ shmem_bound_[d]
        /\ source_ref_count[s] = 1
\* no operation is in progress: every participant is between two calls (a
\* consumer at "wait" has completed its previous call and changed nothing yet)
Quiescent ==
    /\ spc \in {"new", "s_idle", "s_done"}
    /\ \A c \in Consumers :
          pc[c] \in {"new", "attached", "retrieve", "wait", "read", "post", "done"}

\* C11 (counter bounds): at every quiescent state the Node of the segment the
\* address names has 0 <= source_read_count <= source_ref_count <= MAX_CONSUMERS.
C11_CounterBounds ==
    (Quiescent /\ linked # NoSeg) =>
        /\ 0 <= source_read_count[linked]
        /\ source_read_count[linked] <= source_ref_count[linked]
        /\ source_ref_count[linked] <= MAX_CONSUMERS

\* C12 (slot ownership): the slot indices held by the attached consumers of a
\* segment are pairwise distinct and each lies in [0, source_ref_count).
C12_SlotOwnership ==
    \A c \in Consumers :
        Attached(c) =>
            /\ this_index_[c] < source_ref_count[node_[c]]
            /\ \A d \in Consumers :
                  (d # c /\ Attached(d) /\ node_[d] = node_[c])
                      => this_index_[d] # this_index_[c]

\* the slots held on a segment are distinct and inside the read_barriers array
SlotsDistinct ==
    \A c \in Consumers :
        Attached(c) =>
            /\ this_index_[c] \in Slots
            /\ \A d \in Consumers :
                  (d # c /\ Attached(d) /\ node_[d] = node_[c])
                      => this_index_[d] # this_index_[c]
\* the step in which the sink writes a sample into segment s
Publishes(s) == spc = "s_mutate" /\ spc' = "s_post" /\ snode = s

\* C15 (write_number): every publication increases write_number of its
\* segment by exactly 1, and no other step of any participant changes it.
C15_WriteNumberByOne ==
    [][\A s \in Segs :
          IF Publishes(s)
          THEN write_number'[s] = write_number[s] + 1
          ELSE write_number'[s] = write_number[s]]_vars

\* the sink has completed MaxWrite publications, consumers having taken part
C15_Witness ==
    /\ snode # NoSeg
    /\ write_number[snode] = MaxWrite
    /\ \E c \in Consumers : Len(observed[c]) >= 1 /\ pc[c] = "wait"

\* C16 (empty audience): whenever the sink is inside wait() and
\* source_ref_count = 0, wait() can return at once, whatever the write barrier
\* holds; so a sink nobody attached to is never blocked.
C16_EmptyAudience ==
    (spc = "s_wait" /\ source_ref_count[snode] = 0) => ENABLED SinkWaitReturn

\* the sink has completed MaxWrite pushes and no consumer ever opened the segment
C16_Witness ==
    /\ spc = "s_idle"
    /\ write_number[snode] = MaxWrite
    /\ \A c \in Consumers : pc[c] = "new"

\* C17 (attach protocol): a connect() that finds no token on its read barrier
\* and blocks there was called with sink_state = UNDEFINED; with sink_state
\* BOUND or END connect() does not wait.
C17_ConnectBlocksIffUndefined ==
    [][\A c \in Consumers :
          (/\ pc[c] = "attached"
           /\ pc'[c] = "connect_wait"
           /\ ~WaitReleased(node_[c], this_index_[c]))
              => sink_state[node_[c]] = "UNDEFINED"]_vars

\* a Source of the sink's segment has been destroyed after attaching
Departed(d) == pc[d] = "done" /\ shmem_bound_[d] /\ node_[d] = snode

\* C18 (departure releases the producer): after a consumer of the sink's
\* segment has been destroyed, it is never the case that the sink is blocked in
\* wait() although every consumer still attached has posted for the current
\* sample and is waiting for the next one.
C18_DepartureReleasesSink ==
    ~(/\ NoCrash
      /\ SinkBlocked
      /\ \E d \in Consumers : Departed(d)
      /\ source_read_count[snode] = source_ref_count[snode]
      /\ \A c \in Consumers : (Attached(c) /\ node_[c] = snode) => Blocked(c))
\* C19 (cooperative cancellation): once the quit flag of a consumer process is
\* set while the consumer is inside wait(), the wait() has an exit: it can
\* return, or the Source can be destroyed, even if its barrier holds no token.
C19_QuitEndsWait ==
    \A c \in Consumers :
        (quit[c] /\ pc[c] \in {"connect_wait", "wait"})
            => ENABLED (WaitReturn(c) \/ DtorDecrement(c))

\* a step in which consumer c reads the payload: read() returns or throws
ReadStep(c) == pc[c] \in {"attached", "retrieve"} /\ pc'[c] \in {"threw", "wait"}

\* C20 (read without bound sink): a read of the payload while sink_state is
\* UNDEFINED raises the error and leaves source_ref_count, source_read_count
\* and the barriers unchanged; a read while a sink is BOUND raises no error.
C20_ReadWithoutBoundSink ==
    [][\A c \in Consumers :
          ReadStep(c) =>
              /\ sink_state[node_[c]] = "UNDEFINED" =>
                    /\ pc'[c] = "threw"
                    /\ UNCHANGED <<source_ref_count, source_read_count,
                                   write_barrier, read_barrier>>
              /\ sink_state[node_[c]] = "BOUND" => pc'[c] = "wait"]_vars

\* a consumer's read has thrown on a Node no sink ever bound
C20_Witness ==
    \E c \in Consumers :
        /\ pc[c] = "threw"
        /\ sink_state[node_[c]] = "UNDEFINED"
        /\ source_ref_count[node_[c]] >= 1
\* the sink's bind() succeeded and the sink has not been destroyed
SinkHolds == spc \in {"s_idle", "s_wait", "s_mutate", "s_post", "s_postloop"}

\* the same of the second sink
RivalHolds == rpc = "r_bound"

\* C13 (single producer): of the sinks that bind the address at most one holds
\* it at a time; a bind() while another sink holds the address fails.
C13_SingleProducer == ~(SinkHolds /\ RivalHolds)

\* at most one sink holds any one Node
OneSinkPerNode == ~(SinkHolds /\ RivalHolds /\ snode = rnode)

\* C14 (sink lifecycle): the sink_state of a Node only ever changes from
\* UNDEFINED to BOUND and from BOUND to END; once END it never changes.
C14_SinkLifecycle ==
    [][\A s \in Segs :
          sink_state'[s] # sink_state[s] =>
              <<sink_state[s], sink_state'[s]>> \in
                  {<<"UNDEFINED", "BOUND">>, <<"BOUND", "END">>}]_vars

\* a sink has bound a Node that an earlier sink had left in state END
C14_Witness ==
    /\ SinkHolds
    /\ rnode = snode
    /\ rpc \in {"r_endpost", "r_unlink", "r_done"}
    /\ sink_state[snode] = "END"
\* C21 (post without wait): a post() not preceded by a returned wait() for the
\* current sample neither increments source_read_count nor posts write_barrier.
C21_PostWithoutWait ==
    [][\A c \in Consumers :
          (pc[c] \in {"m_post", "m_post_inc", "m_post_ref"} /\ pc'[c] # pc[c])
              => UNCHANGED <<source_read_count, write_barrier>>]_vars

\* every consumer process has destroyed its Source
SourcesDestroyed == \A c \in Consumers : pc[c] = "done"

\* C22 (double attach): once every Source has been destroyed, once each, no
\* Node counts a consumer any more, whether or not a Source was bound twice.
C22_DoubleAttach ==
    SourcesDestroyed => \A s \in Segs : source_ref_count[s] = 0
\* consumer c's bind() performs its attach (SourceBase::bind, line 101)
AttachStep(c) == pc[c] = "bind" /\ pc'[c] # "bind"

\* the slots of segment s no consumer holds
FreeSlots(s) == Slots \ slots[s]

\* C23 (attach slot assignment and capacity): an attach below capacity returns
\* the lowest free slot, marks it owned and raises source_ref_count by one; an
\* attach at MAX_CONSUMERS fails and leaves the count and the ownership as
\* they were.
C23_AttachSlotAndCapacity ==
    [][\A c \in Consumers : AttachStep(c) =>
          LET s == node_[c] IN
          IF source_ref_count[s] = MAX_CONSUMERS
          THEN /\ pc'[c] = "bind_threw" /\ ~shmem_bound_'[c]
               /\ source_ref_count' = source_ref_count
               /\ slots' = slots
          ELSE /\ pc'[c] = "attached"
               /\ this_index_'[c] \in FreeSlots(s)
               /\ \A j \in FreeSlots(s) : this_index_'[c] <= j
               /\ slots' = [slots EXCEPT ![s] = @ \cup {this_index_'[c]}]
               /\ source_ref_count' = [source_ref_count EXCEPT ![s] = @ + 1]]_vars

\* an attach failed at capacity, and an earlier one took the second slot
C23_Witness ==
    \E c \in Consumers :
        /\ pc[c] = "bind_threw" /\ ~shmem_bound_[c] /\ node_[c] # NoSeg
        /\ source_ref_count[node_[c]] = MAX_CONSUMERS
        /\ slots[node_[c]] = Slots
\* the Nodes the live participants that mapped the address point into
ParticipantNodes ==
    {node_[c] : c \in {d \in Consumers : pc[d] \notin {"new", "done", "crashed"}}}
        \cup (IF spc \in {"new", "s_done"} THEN {} ELSE {snode})

\* C25 (single Node per address): whatever the arrival order, all live
\* participants that mapped the address refer to one and the same Node.
C25_SingleNode == Cardinality(ParticipantNodes) <= 1

\* consumer c is inside post(), or inside the destructor on its way to post()
InPost(c) ==
    pc[c] \in {"post", "post_inc", "post_ref", "d_state", "d_post", "d_post_inc",
               "d_post_ref"}

\* C26 (write_barrier posted once per cycle): with no participant crashed, it
\* is never the case that source_read_count has reached source_ref_count, no
\* consumer is still inside post(), and yet the sink is blocked in wait() on a
\* write_barrier that holds no token (the barrier was posted zero times).
C26_WriteBarrierPosted ==
    ~(/\ NoCrash
      /\ SinkBlocked
      /\ source_read_count[snode] >= source_ref_count[snode]
      /\ \A c \in Consumers : ~InPost(c))

\* C27 (read-barrier tokens): with no participant crashed, while the sink
\* holds its Node no read barrier of that Node holds more than one token.
C27_ReadBarrierTokens ==
    (NoCrash /\ SinkHolds) => \A i \in Slots : read_barrier[snode][i] <= 1
\* the reasons for which a component shuts down cleanly
CleanCauses == {"help", "version", "sigint", "eof"}

\* C24 (component exit codes): every path of main() ends by returning 0 or
\* -1, and it returns 0 exactly when the shutdown is clean (help, version, or
\* the loop ended by SIGINT or end of stream).
C24_ExitCodes ==
    mpc = "exited" =>
        /\ mexit = "returned"
        /\ ret \in {0, -1}
        /\ ret = 0 <=> cause \in CleanCauses
\* writeStreams is between the wait() and the post() of some source
CriticalSection == recpc \in {"f_push", "f_post", "p_post"}

\* C28 (recorder cycle pairing): outside the stretch between a wait() and the
\* post() that follows it, on every path out of writeStreams, no source of
\* the Recorder has a wait() that was not followed by its post().
C28_CyclePairing == ~CriticalSection => in_section = {}

\* C29 (recorder end-of-stream latch): a call of writeStreams returns true if
\* some source's wait() has returned END in that call or an earlier one, and
\* false if none ever has; after a call that returned true every later call
\* returns true.
C29_EofLatch ==
    /\ (recpc = "idle" /\ rec_ret # <<>>) => (rec_ret[Len(rec_ret)] <=> ended # {})
    /\ \A i, j \in 1..Len(rec_ret) : (i < j /\ rec_ret[i]) => rec_ret[j]

\* a call returned true after an earlier call had, although the wait() on
\* its last source returned ACTIVE: only the frame source has reported END
C29_Witness ==
    /\ recpc = "idle" /\ Len(rec_ret) >= 2
    /\ rec_ret[Len(rec_ret) - 1] /\ rec_ret[Len(rec_ret)]
    /\ ended = {FrameSource(1)}

\* C30 (no frame lost at shutdown): when the destructor's join has returned,
\* every frame queue is empty and every frame pushed has been written.
C30_NoFrameLost ==
    recpc = "destroyed" =>
        \A w \in Writers : frame_write_buffers_[w] = <<>> /\ written[w] = pushed[w]
\* C31 (recorder shutdown terminates): once the destructor has set running_
\* to false and waits in join, every writer thread leaves its loop and join
\* returns.
C31_ShutdownTerminates == (recpc = "d_join") ~> (recpc = "destroyed")

\* the destructor has returned after some frames were streamed: every writer
\* thread has left its loop
C31_Witness ==
    /\ recpc = "destroyed" /\ ~running_ /\ stream_calls >= 1
    /\ \A w \in Writers : wpc[w] = "exited"

\* all sources of the Recorder
AllSources ==
    {FrameSource(i) : i \in Writers} \cup {PositionSource(i) : i \in PositionSources}

\* C32 (recorder attach ordering): whenever connectToNodes has called
\* connect() on some source it has called touch() on every source before, and
\* no frame source is connected after a position source.
C32_AttachOrdering ==
    /\ connected # <<>> => touched = AllSources
    /\ \A i, j \in 1..Len(connected) :
          (i < j /\ connected[i][1] = "position") => connected[j][1] = "position"

\* connectToNodes has returned: every source touched and connected
C32_Witness ==
    /\ recpc = "idle" /\ stream_calls = 0
    /\ touched = AllSources
    /\ Len(connected) = NumWriters + NumPositionSources
\* C33 (posifilt processing loop): run() calls process() only from a loop
\* check that saw neither the quit flag nor the end of the stream, so never
\* after a call returned true; a caught interprocess_exception with error
\* code 1 makes main return 0, one with another code makes it return -1.
C33_ProcessingLoop ==
    [][component = "posifilt" =>
          /\ (mpc # "process" /\ mpc' = "process")
                => (mpc = "loop" /\ ~main_quit /\ ~source_eof)
          /\ process_calls' # process_calls => (mpc = "process" /\ ~source_eof)
          /\ (mpc' = "exited" /\ ex_code' = 1) => (mexit' = "returned" /\ ret' = 0)
          /\ (mpc' = "exited" /\ ex_code' \notin {0, 1})
                => (mexit' = "returned" /\ ret' = -1)]_vars

\* posifilt ended by an interprocess_exception with a code other than 1, after
\* a call of process() had returned false
C33_Witness ==
    /\ component = "posifilt" /\ mpc = "exited"
    /\ ex_code = 2 /\ ret = -1 /\ process_calls = 2

\* the positions of posifilt's main at or after which filter is dereferenced
\* outside the block that assigns it: name(), configure(), run()
FilterInUse == mpc \in {"configure", "connect", "loop", "process"}

\* C34 (posifilt never uses an unset filter): wherever main dereferences the
\* filter pointer a valid TYPE was given and the pointer has been assigned.
C34_FilterAssigned ==
    (component = "posifilt" /\ FilterInUse) => (filter /\ args.type = "ok")

\* posifilt is inside run() with its filter
C34_Witness == component = "posifilt" /\ mpc = "process" /\ filter

\* the command lines frameserve accepts
ValidServerArgs ==
    /\ args.parse = "ok"
    /\ args.type \in {"ok", "file"}
    /\ args.sink
    /\ args.config_file = args.config_key
    /\ args.type = "file" => args.video_file

DestructorStep(c) == pc[c] \in Destructible /\ pc'[c] \in {"done", "d_state"}

\* C36 (destroying an unattached Source): the destructor of a Source on which
\* bind() was never called, or did not complete, ends at its first test and
\* changes no counter, no barrier and no segment.
C36_UnattachedDestructor ==
    [][\A c \in Consumers :
          (DestructorStep(c) /\ ~shmem_bound_[c]) =>
              /\ pc'[c] = "done"
              /\ UNCHANGED <<nodeVars, linked, nsegs>>]_vars

\* a Source whose bind() failed at capacity has been destroyed and the Node
\* still counts its MAX_CONSUMERS consumers
C36_Witness ==
    \E c \in Consumers :
        /\ pc[c] = "done" /\ ~shmem_bound_[c] /\ node_[c] # NoSeg
        /\ source_ref_count[node_[c]] = MAX_CONSUMERS
\* contour i is a top-level contour whose area lies strictly inside the range
InRange(i) ==
    /\ contours[i].top
    /\ contours[i].area > min_object_area
    /\ contours[i].area < max_object_area

\* C37 (siftBlobs selection): after siftBlobs, position_valid holds iff some
\* top-level contour is in range; then the position is the centroid of an
\* in-range contour of maximum area and object_area is that area; otherwise
\* object_area is 0.
C37_SiftBlobs ==
    dpc = "sifted" =>
        /\ position_valid <=> \E i \in 1..Len(contours) : InRange(i)
        /\ position_valid =>
              /\ object_position \in 1..Len(contours)
              /\ InRange(object_position)
              /\ object_area = contours[object_position].area
              /\ \A j \in 1..Len(contours) : InRange(j) => contours[j].area <= object_area
        /\ ~position_valid => object_area = 0

\* the contour chosen is not the first in range, a larger top-level contour
\* is out of range, and a nested contour's larger in-range area was passed over
C37_Witness ==
    /\ dpc = "sifted" /\ position_valid
    /\ \E i \in 1..Len(contours) : i < object_position /\ InRange(i)
    /\ \E k \in 1..Len(contours) :
          contours[k].area > object_area /\ (contours[k].top <=> k = 1)
====
